---- MODULE Spec2Model ----
(***************************************************************************)
(* Verification model of nemo/collections/asr/parts/perturb.py:            *)
(*   - AugmentationDataset: the sharded, manifest-filtered archive stream  *)
(*     (__init__, _filter, __iter__, get_all_data);                        *)
(*   - the perturbation variants and their noise sources;                  *)
(*   - AudioAugmentor: the probabilistic pipeline.                         *)
(* Each group of operations has its own specification over the shared      *)
(* variables; the variables a specification does not use stay at their     *)
(* idle values.                                                            *)
(***************************************************************************)
EXTENDS Integers, Sequences, FiniteSets, TLC

\* ---------------------------------------------------------------- bounds
MaxRec == 2       \* archive members / manifest identifiers in the stream model
MaxSr == 2        \* distinct sample rates (in samples per time unit)
MaxDraws == 4     \* draws taken from the stream generator
MaxCalls == 2     \* calls of get_all_data
MaxShards == 4    \* archive shards given to the constructor
MaxWorkers == 3   \* distributed workers (world size)
MaxTars == 2      \* n_tars_per_worker
MaxStages == 3    \* stages of an augmentation pipeline
ProbDen == 2      \* probabilities and uniform draws are multiples of 1/ProbDen
MaxNoise == 2     \* archive members / manifest entries of a perturbation's source
MaxLen == 3       \* samples of a segment given to a perturbation
RateDen == 2      \* speed rates given to a constructor are multiples of 1/RateDen
MaxRateNum == 3   \* the largest such rate is MaxRateNum/RateDen
MaxNumRates == 3  \* the largest num_rates
UGrid == 2        \* random.uniform(a, b) returns a + (b - a) * u/UGrid, u in 0..UGrid
MaxCfg == 3       \* entries of a configuration list given to from_config
MaxShiftMs == 5   \* the largest bound of a Shift, in whole milliseconds
MaxBuf == 10      \* samples of a segment given to Shift
MaxMix == 3       \* samples of a target or noise segment given to a mixing request
MaxAdd == 2       \* the largest max_additions
MaxGain == 2      \* the largest max_gain_db, in units of 10 * log10(2) dB
MaxDur == 2       \* the largest max_noise_dur, in time units
MaxLevel == 3     \* white-noise levels are the whole dB values -MaxLevel..0

VARIABLES
  \* AugmentationDataset
  mapping,        \* self._manifest.mapping: the file identifiers of the manifest
  audio_dataset,  \* self.audio_dataset: the members of the assigned archives
  audio_iter,     \* self.audio_iter: [seq: order of this pass, pos: members consumed]
  opens,          \* number of iter(self.audio_dataset) evaluations so far
  noise_list,     \* self._noise_list of the dataset: the cached decoded buffers
  calls,          \* completed get_all_data calls
  drain_pulls,    \* next(self.audio_iter) evaluations made by the last get_all_data
  gen,            \* the generator made by __iter__: "active", or "failed" once it raised
  draws,          \* next() calls made on the generator
  yielded,        \* file identifiers of the samples the generator yielded, in order
  this_pass,      \* those of them yielded since the generator last reopened the archive
  \* AugmentationDataset.__init__ in each worker process
  distributed,          \* torch.distributed.is_available() and is_initialized()
  world_size,           \* torch.distributed.get_world_size()
  audio_tar_filepaths,  \* the shard list given to every worker
  n_tars_per_worker,    \* shards per worker
  constructed,          \* ranks whose dataset has been constructed
  tar_list,             \* rank -> the shard list its wd.Dataset was opened on
  warned,               \* ranks that logged the divisibility warning
  \* AudioAugmentor
  pipeline,       \* self._pipeline: sequence of [prob, p]
  augmented,      \* AudioAugmentor.perturb has been called
  rolls,          \* the values self._rng.random() returned during the last call
  applied,        \* indices of the stages whose perturb the last call invoked
  segment,        \* the perturbations the segment of the last call went through
  \* one perturbation object and the requests made of it
  p,              \* the perturbation object
  data,           \* the AudioSegment given to the last request, after it
  in_data,        \* the same AudioSegment before the request
  aux,            \* the noise or impulse segment the last request used
  speed_rate,     \* the rate the last Speed / TimeStretch request drew
  delay_after,    \* len(impulse_resp) of the last Impulse request
  err,            \* the exception the last request raised, or "none"
  last,           \* the last request
  log,            \* the library routines the last request ran, in order
  \* the registry of perturbation kinds and AudioAugmentor.from_config
  perturbation_types,  \* the module-level dict: kind name -> perturbation class
  call,                \* the last call of register_perturbation or from_config
  config,              \* the configuration list given to the last from_config
  raised,              \* the exception that call raised, or "none"
  \* the samples of the segment a Shift or Noise request works on
  in_samples,     \* data._samples before the request, as amplitudes
  samples,        \* data._samples after a Shift request
  sample_rate,    \* data.sample_rate
  shift_ms,       \* the shift the last Shift request drew, a fraction of ms
  shift_samples,  \* its shift_samples
  noise_seg,      \* the noise segment given to the last mixing request
  added,          \* per sample of data, the noise amplitudes added to it, in order:
                  \* data._samples[i] is in_samples[i] plus the sum of added[i]
                  \* times 10 ** (noise_gain_db / 20)
  mix             \* snr_db, data_rms and noise_gain_db of the last mixing request

streamVars == <<mapping, audio_dataset, audio_iter, opens, noise_list, calls,
                drain_pulls, gen, draws, yielded, this_pass>>

shardVars == <<distributed, world_size, audio_tar_filepaths, n_tars_per_worker,
               constructed, tar_list, warned>>

pipeVars == <<pipeline, augmented, rolls, applied, segment>>

pertVars == <<p, data, in_data, aux, speed_rate, delay_after, err, last, log>>

regVars == <<perturbation_types, call, config, raised>>

sigVars == <<in_samples, samples, sample_rate, shift_ms, shift_samples, noise_seg,
            added, mix>>

vars == <<streamVars, shardVars, pipeVars, pertVars, regVars, sigVars>>

\* ------------------------------------------------------------ helpers
Ids == 1..MaxRec
\* sample rates, in samples per time unit
SrUnit == 2
SampleRates == {SrUnit * k : k \in 1..MaxSr}

\* a member of an archive, as webdataset names it: directory, root and extension
Filename(id) == [dir |-> "shard", root |-> id, ext |-> ".wav"]
Filenames == {Filename(id) : id \in Ids}

\* every order in which one pass can deliver the members of S (wd shuffle)
Perms(S) == {f \in [1..Cardinality(S) -> S] :
               \A x \in S : \E i \in 1..Cardinality(S) : f[i] = x}

\* os.path.basename and os.path.splitext, then the root: the file identifier
Basename(audio_filename) == [root |-> audio_filename.root, ext |-> audio_filename.ext]
Splitext(base) == <<base.root, base.ext>>
FileId(audio_filename) == Splitext(Basename(audio_filename))[1]

\* file_id in self.collection.mapping
InMappingAll(file_id) == TRUE
InMapping(file_id) == file_id \in mapping

\* iter(self.audio_dataset): a fresh pass over the archive in the order seq
OpenIter(seq) == [seq |-> seq, pos |-> 0]

\* TarredAudioFilter.__next__: pull members until one is in the manifest;
\* stop = TRUE is StopIteration of the underlying iterator
RECURSIVE FilterNext(_)
FilterNext(it) ==
  IF it.pos >= Len(it.seq)
  THEN [stop |-> TRUE, item |-> Filename(0), iter |-> it]
  ELSE LET audio_filename == it.seq[it.pos + 1]
           nxt == [it EXCEPT !.pos = it.pos + 1]
       IN IF InMapping(FileId(audio_filename))
          THEN [stop |-> FALSE, item |-> audio_filename, iter |-> nxt]
          ELSE FilterNext(nxt)

\* AudioSegment.from_file(audio_file, target_sr=...): the decoded buffer. A file
\* holds root time units of audio, so it decodes to root * target_sr samples.
\* file_id records which member the buffer was decoded from.
FromFile(audio_filename, target_sr) ==
  [file_id |-> FileId(audio_filename),
   sample_rate |-> target_sr,
   num_samples |-> FileId(audio_filename) * target_sr]

\* one loop iteration of __iter__ up to its yield: next(self.audio_iter), and on
\* StopIteration a reopened iterator (in the order seq) and a second next
StreamPullNoRestart(it, seq) ==
  LET r == FilterNext(it)
  IN [stop |-> r.stop, item |-> r.item, iter |-> r.iter, reopened |-> FALSE]
StreamPull(it, seq) ==
  LET r == FilterNext(it)
  IN IF ~r.stop
     THEN [stop |-> FALSE, item |-> r.item, iter |-> r.iter, reopened |-> FALSE]
     ELSE LET r2 == FilterNext(OpenIter(seq))
          IN [stop |-> r2.stop, item |-> r2.item, iter |-> r2.iter, reopened |-> TRUE]

\* the drain loop of get_all_data: append decoded buffers until StopIteration
RECURSIVE Drain(_, _, _, _)
Drain(it, list, target_sr, n) ==
  LET r == FilterNext(it)
  IN IF r.stop
     THEN [iter |-> r.iter, list |-> list, pulls |-> n + 1]
     ELSE Drain(r.iter, Append(list, FromFile(r.item, target_sr)), target_sr, n + 1)

\* a drain that reopens the archive when it hits the end, as __iter__ does
GetAllDataReopening(it, list, target_sr) ==
  IF list = <<>>
  THEN LET d == Drain(it, list, target_sr, 0)
       IN [iter |-> OpenIter(it.seq), list |-> d.list, pulls |-> d.pulls]
  ELSE [iter |-> it, list |-> list, pulls |-> 0]
\* get_all_data: drain only when the cache is empty, return the cache
GetAllDataResult(it, list, target_sr) ==
  IF list = <<>>
  THEN Drain(it, list, target_sr, 0)
  ELSE [iter |-> it, list |-> list, pulls |-> 0]

\* ------------------------------------------------------------ idle values
IdleStream ==
  /\ mapping = {}
  /\ audio_dataset = {}
  /\ audio_iter = OpenIter(<<>>)
  /\ opens = 0
  /\ noise_list = <<>>
  /\ calls = 0
  /\ drain_pulls = 0
  /\ gen = "none"
  /\ draws = 0
  /\ yielded = <<>>
  /\ this_pass = <<>>

IdleShard ==
  /\ distributed = FALSE
  /\ world_size = 1
  /\ audio_tar_filepaths = <<>>
  /\ n_tars_per_worker = 1
  /\ constructed = {}
  /\ tar_list = <<>>
  /\ warned = {}

IdlePipe ==
  /\ pipeline = <<>>
  /\ augmented = FALSE
  /\ rolls = <<>>
  /\ applied = <<>>
  /\ segment = <<>>

\* no perturbation object, no segment
NoObject == [kind |-> "none"]
NoSegment == [file_id |-> 0, sample_rate |-> 0, num_samples |-> 0]
NoRate == [n |-> 0, d |-> 1]

IdlePert ==
  /\ p = NoObject
  /\ data = NoSegment
  /\ in_data = NoSegment
  /\ aux = NoSegment
  /\ speed_rate = NoRate
  /\ delay_after = 0
  /\ err = "none"
  /\ last = "none"
  /\ log = <<>>

\* lines 434-443: perturbation_types as the module defines it
BuiltinTypes ==
  [aug_type \in {"speed", "time_stretch", "gain", "impulse", "shift", "noise",
                 "white_noise", "rir_noise"} |->
     CASE aug_type = "speed" -> "SpeedPerturbation"
       [] aug_type = "time_stretch" -> "TimeStretchPerturbation"
       [] aug_type = "gain" -> "GainPerturbation"
       [] aug_type = "impulse" -> "ImpulsePerturbation"
       [] aug_type = "shift" -> "ShiftPerturbation"
       [] aug_type = "noise" -> "NoisePerturbation"
       [] aug_type = "white_noise" -> "WhiteNoisePerturbation"
       [] aug_type = "rir_noise" -> "RirAndNoisePerturbation"]

NoCall == [op |-> "none"]

\* the registry after import, nothing called yet
IdleReg ==
  /\ perturbation_types = BuiltinTypes
  /\ call = NoCall
  /\ config = <<>>
  /\ raised = "none"

NoNoise == [samples |-> <<>>, sample_rate |-> 0]
NoMix == [op |-> "none"]

\* no segment has been given to a Shift or Noise request
IdleSig ==
  /\ in_samples = <<>>
  /\ samples = <<>>
  /\ sample_rate = 0
  /\ shift_ms = NoRate
  /\ shift_samples = 0
  /\ noise_seg = NoNoise
  /\ added = <<>>
  /\ mix = NoMix

\* ------------------------------------------------------ the stream model
\* the dataset after AugmentationDataset.__init__
InitDataset(keys) ==
  /\ mapping \in SUBSET keys
  /\ audio_dataset \in SUBSET {Filename(id) : id \in keys}
  /\ \E seq \in Perms(audio_dataset) : audio_iter = OpenIter(seq)
  /\ opens = 1
  /\ noise_list = <<>>
  /\ calls = 0
  /\ drain_pulls = 0

InitStream ==
  /\ InitDataset(Ids)
  /\ IdleShard
  /\ IdlePipe
  /\ IdlePert
  /\ IdleSig
  /\ IdleReg
  /\ gen = "active"
  /\ draws = 0
  /\ yielded = <<>>
  /\ this_pass = <<>>

\* next() on the generator of AugmentationDataset.__iter__
StreamNext ==
  /\ gen = "active"
  /\ draws < MaxDraws
  /\ \E seq \in Perms(audio_dataset) :
       LET r == StreamPull(audio_iter, seq)
       IN /\ audio_iter' = r.iter
          /\ opens' = opens + (IF r.reopened THEN 1 ELSE 0)
          /\ IF r.stop
             THEN gen' = "failed" /\ yielded' = yielded /\ this_pass' = this_pass
             ELSE /\ gen' = "active"
                  /\ yielded' = Append(yielded, FileId(r.item))
                  /\ this_pass' = IF r.reopened
                                  THEN <<FileId(r.item)>>
                                  ELSE Append(this_pass, FileId(r.item))
  /\ draws' = draws + 1
  /\ UNCHANGED <<mapping, audio_dataset, noise_list, calls, drain_pulls>>
  /\ UNCHANGED <<shardVars, pipeVars, pertVars, regVars, sigVars>>

\* AugmentationDataset.get_all_data(target_sr)
GetAllData(target_sr) ==
  /\ calls < MaxCalls
  /\ LET d == GetAllDataResult(audio_iter, noise_list, target_sr)
     IN /\ audio_iter' = d.iter
        /\ noise_list' = d.list
        /\ drain_pulls' = d.pulls
  /\ calls' = calls + 1
  /\ UNCHANGED <<mapping, audio_dataset, opens, gen, draws, yielded, this_pass>>
  /\ UNCHANGED <<shardVars, pipeVars, pertVars, regVars, sigVars>>

NextStream ==
  \/ StreamNext
  \/ \E target_sr \in SampleRates : GetAllData(target_sr)

SpecStream == InitStream /\ [][NextStream]_vars

\* ------------------------------------------------- shard partitioning
\* list[i] with Python's 0-based index
At(list, i) == list[i + 1]

\* the ranks of a run
Ranks == 0..(world_size - 1)

\* lines 520-523 with the rank offset taken per shard instead of per block
TarListStrideOne(paths, global_rank, k) ==
  [j \in 1..k |-> At(paths, (global_rank + (j - 1)) % Len(paths))]
\* lines 520-523 with the rank offset left out
TarListNoOffset(paths, global_rank, k) ==
  [j \in 1..k |-> At(paths, (j - 1) % Len(paths))]
\* lines 520-523: tar_list, the k shards of worker global_rank
TarList(paths, global_rank, k) ==
  [j \in 1..k |-> At(paths, ((global_rank * k) + (j - 1)) % Len(paths))]

\* lines 502-523: the shard list the dataset of worker global_rank is opened on
AssignedShards(paths, global_rank, k) ==
  IF distributed THEN TarList(paths, global_rank, k) ELSE paths

InitShard ==
  /\ IdleStream
  /\ IdlePipe
  /\ IdlePert
  /\ IdleSig
  /\ IdleReg
  /\ distributed \in BOOLEAN
  /\ world_size \in 1..MaxWorkers
  /\ \E S \in 1..MaxShards : audio_tar_filepaths = [i \in 1..S |-> i]
  /\ n_tars_per_worker \in 1..MaxTars
  /\ constructed = {}
  /\ tar_list = [r \in Ranks |-> <<>>]
  /\ warned = {}

\* AugmentationDataset.__init__ in the process of rank global_rank
Construct(global_rank) ==
  /\ global_rank \in Ranks \ constructed
  /\ constructed' = constructed \cup {global_rank}
  /\ tar_list' = [tar_list EXCEPT ![global_rank] =
                    AssignedShards(audio_tar_filepaths, global_rank, n_tars_per_worker)]
  /\ warned' = IF distributed /\ Len(audio_tar_filepaths) % world_size # 0
               THEN warned \cup {global_rank}
               ELSE warned
  /\ UNCHANGED <<distributed, world_size, audio_tar_filepaths, n_tars_per_worker>>
  /\ UNCHANGED <<streamVars, pipeVars, pertVars, regVars, sigVars>>

NextShard == \E global_rank \in 0..(MaxWorkers - 1) : Construct(global_rank)

SpecShard == InitShard /\ [][NextShard]_vars

\* ------------------------------------------------------- AudioAugmentor
\* prob is a multiple of 1/ProbDen in [0, 1]; random() one in [0, 1)
Probs == 0..ProbDen
Rolls == 0..(ProbDen - 1)
StageKinds == {"gain", "shift"}
Stages == [prob : Probs, p : StageKinds]
Pipelines == UNION {[1..n -> Stages] : n \in 0..MaxStages}

\* a trigger test that also fires when the draw equals the probability
TriggersInclusive(roll, prob) == roll <= prob
\* line 462: self._rng.random() < prob
Triggers(roll, prob) == roll < prob

\* lines 461-463: the loop over the stages from stage i on. tape holds the values
\* the random source will return; st.used counts the values taken from it,
\* st.applied the stages whose perturb ran and st.segment what the segment
\* went through.
RECURSIVE RunStages(_, _, _, _)
RunStages(pl, i, tape, st) ==
  IF i > Len(pl)
  THEN st
  ELSE LET roll == tape[st.used + 1]
           drawn == [st EXCEPT !.used = st.used + 1]
       IN IF Triggers(roll, pl[i].prob)
          THEN RunStages(pl, i + 1, tape,
                         [drawn EXCEPT !.applied = Append(st.applied, i),
                                       !.segment = Append(st.segment, pl[i].p)])
          ELSE RunStages(pl, i + 1, tape, drawn)

\* AudioAugmentor.__init__(perturbations)
InitPipeline ==
  /\ IdleStream
  /\ IdleShard
  /\ IdlePert
  /\ IdleSig
  /\ IdleReg
  /\ pipeline \in Pipelines
  /\ augmented = FALSE
  /\ rolls = <<>>
  /\ applied = <<>>
  /\ segment = <<>>

\* AudioAugmentor.perturb(segment) on a fresh segment. A call leaves nothing in
\* the augmentor for the next one, so a behaviour holds one call.
AugmentorPerturb ==
  /\ ~augmented
  /\ \E tape \in [1..Len(pipeline) -> Rolls] :
       LET st == RunStages(pipeline, 1, tape,
                           [used |-> 0, applied |-> <<>>, segment |-> <<>>])
       IN /\ rolls' = SubSeq(tape, 1, st.used)
          /\ applied' = st.applied
          /\ segment' = st.segment
  /\ augmented' = TRUE
  /\ UNCHANGED pipeline
  /\ UNCHANGED <<streamVars, shardVars, pertVars, regVars, sigVars>>

NextPipeline == AugmentorPerturb

SpecPipeline == InitPipeline /\ [][NextPipeline]_vars

\* ------------------------------------------------------- perturbations
\* A segment is its sample count and sample rate; the sample values are not part
\* of the model. A rate is the fraction n/d with d > 0.
Max(a, b) == IF a >= b THEN a ELSE b
Min(a, b) == IF a <= b THEN a ELSE b

\* the segments a caller hands to perturb
Buffers == [file_id : {0}, sample_rate : SampleRates, num_samples : 1..MaxLen]

\* int(round(a / b)) for a >= 0, b > 0: Python rounds halves to the even integer
RoundHalfEven(a, b) ==
  LET q == a \div b
      r == a % b
  IN IF 2 * r < b THEN q
     ELSE IF 2 * r > b THEN q + 1
     ELSE IF q % 2 = 0 THEN q ELSE q + 1

\* x[:-k] of a sequence of len elements: its length
DropLast(len, k) == IF k = 0 THEN 0 ELSE Max(len - k, 0)

\* constructor arguments
RateNums == (0 - 1)..MaxRateNum
NumRates == (0 - 1)..MaxNumRates
ResampleTypes == {"kaiser_best", "kaiser_fast", "fft", "scipy"}
GivenResampleTypes == {"kaiser_best", "linear"}

\* np.linspace(start, stop, num, endpoint=True) for num >= 1, as fractions
Linspace(start, stop, num) ==
  IF num = 1
  THEN {[n |-> start, d |-> RateDen]}
  ELSE {[n |-> (start * (num - 1)) + (i * (stop - start)), d |-> RateDen * (num - 1)] :
          i \in 0..(num - 1)}

\* self._rng.uniform(a, b) = a + (b - a) * random(), on a grid
Uniform(a, b) ==
  {[n |-> (a * UGrid) + (u * (b - a)), d |-> RateDen * UGrid] : u \in 0..UGrid}

\* lines 85-99: SpeedPerturbation.__init__; the object, or the error raised
SpeedInit(sr, resample_type, min_speed_rate, max_speed_rate, num_rates) ==
  IF Min(min_speed_rate, max_speed_rate) < 0
  THEN [err |-> "ValueError", obj |-> NoObject]
  ELSE IF resample_type \notin ResampleTypes
  THEN [err |-> "ValueError", obj |-> NoObject]
  ELSE [err |-> "none",
        obj |-> [kind |-> "speed", sr |-> sr, res_type |-> resample_type,
                 min_rate |-> min_speed_rate, max_rate |-> max_speed_rate,
                 num_rates |-> num_rates, has_rates |-> num_rates > 0]]

\* lines 152-161: TimeStretchPerturbation.__init__
TimeStretchInit(min_speed_rate, max_speed_rate, num_rates) ==
  IF Min(min_speed_rate, max_speed_rate) < 0
  THEN [err |-> "ValueError", obj |-> NoObject]
  ELSE [err |-> "none",
        obj |-> [kind |-> "time_stretch",
                 min_rate |-> min_speed_rate, max_rate |-> max_speed_rate,
                 num_rates |-> num_rates, has_rates |-> num_rates > 0]]

\* lines 106-109 and 179-182: the rates the draw can return; self._rates exists
\* only when num_rates > 0, the empty set stands for the AttributeError
DrawRates(obj) ==
  IF obj.num_rates < 0
  THEN Uniform(obj.min_rate, obj.max_rate)
  ELSE IF obj.has_rates
  THEN Linspace(obj.min_rate, obj.max_rate, obj.num_rates)
  ELSE {}

\* librosa.core.resample(y, orig_sr, target_sr): the number of samples returned,
\* ceil(len(y) * target_sr / orig_sr)
ResampleLen(length, orig_sr, target_sr) ==
  IF orig_sr = target_sr
  THEN length
  ELSE ((length * target_sr) + (orig_sr - 1)) \div orig_sr

\* SpeedPerturbation.perturb without the identity-rate return of lines 112-113
SpeedResultNoSkip(obj, d, rate) ==
  LET new_sr == (obj.sr * rate.n) \div rate.d
  IN IF new_sr = 0
     THEN [err |-> "ValueError", data |-> d, log |-> <<"resample">>]
     ELSE [err |-> "none",
           data |-> [d EXCEPT !.num_samples = ResampleLen(d.num_samples, obj.sr, new_sr)],
           log |-> <<"resample">>]

\* lines 111-116: SpeedPerturbation.perturb once the rate is drawn
SpeedResult(obj, d, rate) ==
  IF rate.n = rate.d
  THEN [err |-> "none", data |-> d, log |-> <<>>]
  ELSE LET new_sr == (obj.sr * rate.n) \div rate.d
       IN IF new_sr = 0
          THEN [err |-> "ValueError", data |-> d, log |-> <<"resample">>]
          ELSE [err |-> "none",
                data |-> [d EXCEPT !.num_samples = ResampleLen(d.num_samples, obj.sr, new_sr)],
                log |-> <<"resample">>]

\* lines 184-222: TimeStretchPerturbation.perturb once the rate is drawn; the
\* inverse STFT is asked for int(round(len / speed_rate)) samples
TimeStretchResult(obj, d, rate) ==
  IF rate.n = rate.d
  THEN [err |-> "none", data |-> d, log |-> <<>>]
  ELSE IF rate.n = 0
  THEN [err |-> "ArithmeticError", data |-> d, log |-> <<"stft", "phase_vocoder">>]
  ELSE [err |-> "none",
        data |-> [d EXCEPT !.num_samples = RoundHalfEven(d.num_samples * rate.d, rate.n)],
        log |-> <<"stft", "phase_vocoder", "istft">>]

\* max_augmentation_length(length), as a fraction: lines 46-47, 101-102, 174-175
MaxAugmentationLength(obj, length) ==
  IF obj.kind \in {"speed", "time_stretch"}
  THEN [n |-> length * obj.max_rate, d |-> RateDen]
  ELSE [n |-> length, d |-> 1]

\* lines 238-251 and 330-348: ImpulsePerturbation.__init__ and
\* NoisePerturbation.__init__; _noise_list and _data_iterator are set only when
\* audio_tar_filepaths is given
SourceInit(kind, tarred) ==
  [kind |-> kind, tarred_audio |-> tarred, has_noise_list |-> tarred]

\* lines 26-43: read_one_audiosegment; the segments rng.sample can return, the
\* empty set standing for its ValueError on an empty population
ReadOneAudiosegment(manifest, target_sr, tarred_audio, noise_data) ==
  IF tarred_audio
  THEN {noise_data[i] : i \in 1..Len(noise_data)}
  ELSE {FromFile(Filename(id), target_sr) : id \in manifest}

\* lines 254-257, 351-354, 357-360: fill self._noise_list from the dataset when
\* it is empty, then read one segment. cands are the segments the request can get.
FetchFromSource(obj, target_sr) ==
  IF ~obj.has_noise_list
  THEN [err |-> "AttributeError", iter |-> audio_iter, list |-> noise_list,
        pulls |-> drain_pulls, called |-> FALSE, cands |-> {}]
  ELSE LET g == IF noise_list = <<>>
                THEN GetAllDataResult(audio_iter, noise_list, target_sr)
                ELSE [iter |-> audio_iter, list |-> noise_list, pulls |-> drain_pulls]
           cands == ReadOneAudiosegment(mapping, target_sr, obj.tarred_audio, g.list)
       IN [err |-> IF cands = {} THEN "ValueError" ELSE "none",
           iter |-> g.iter, list |-> g.list, pulls |-> g.pulls,
           called |-> (noise_list = <<>>), cands |-> cands]

\* the effect of a fetch on the perturbation's dataset
ApplyFetch(f) ==
  /\ audio_iter' = f.iter
  /\ noise_list' = f.list
  /\ drain_pulls' = f.pulls
  /\ calls' = IF f.called /\ calls < MaxCalls THEN calls + 1 ELSE calls
  /\ UNCHANGED <<mapping, audio_dataset, opens, gen, draws, yielded, this_pass>>

\* line 259: np.argmax(impulse.samples) depends on the sample values; the model
\* takes the peak at the first, the middle or the last of the n samples
PeakChoices(n) == {0, (n - 1) \div 2, n - 1}

\* lines 259-263: the samples left of data after the convolution with the
\* response trimmed to start at index max_ind:
\* fftconvolve(data, impulse_resp, "full") has len(data) + len(impulse_resp) - 1
\* samples, of which the last delay_after are cut
ImpulseConvolve(d, impulse, max_ind) ==
  LET resp_len == impulse.num_samples - max_ind
  IN [d EXCEPT !.num_samples = DropLast((d.num_samples + resp_len) - 1, resp_len)]

\* lines 403-405: start_sample and end_sample of perturb_with_input_noise, for
\* the draw u/UGrid of the start time
InputNoiseBounds(d, noise, u) ==
  LET x == (noise.num_samples * d.sample_rate) - (d.num_samples * noise.sample_rate)
      den == d.sample_rate * UGrid
      start_num == IF x > 0 THEN x * u ELSE 0
      end_num == Min(noise.num_samples * den,
                     start_num + (d.num_samples * noise.sample_rate * UGrid))
  IN [start_sample |-> RoundHalfEven(start_num, den),
      end_sample |-> RoundHalfEven(end_num, den)]

\* line 406: len(noise_samples) of perturb_with_input_noise
InputNoiseLen(d, noise, u) ==
  LET b == InputNoiseBounds(d, noise, u)
  IN Max(Min(b.end_sample, noise.num_samples) - Min(b.start_sample, noise.num_samples), 0)

\* line 413: data._samples[0:n] += noise_samples leaves len(data); numpy raises
\* when the n noise samples do not fit the slice
InputNoiseResult(d, noise, u) ==
  IF InputNoiseLen(d, noise, u) > d.num_samples
  THEN [err |-> "ValueError", data |-> d]
  ELSE [err |-> "none", data |-> d]

InitPerturb ==
  /\ IdleStream
  /\ IdleShard
  /\ IdlePipe
  /\ IdlePert
  /\ IdleSig
  /\ IdleReg

NoRequestYet == p = NoObject /\ last = "none"

\* SpeedPerturbation(sr, resample_type, min_speed_rate, max_speed_rate, num_rates)
ConstructSpeed ==
  /\ NoRequestYet
  /\ \E sr \in SampleRates, rt \in GivenResampleTypes, lo \in RateNums, hi \in RateNums,
        num \in NumRates :
       LET c == SpeedInit(sr, rt, lo, hi, num)
       IN p' = c.obj /\ err' = c.err
  /\ last' = "init"
  /\ UNCHANGED <<data, in_data, aux, speed_rate, delay_after, log>>
  /\ UNCHANGED <<streamVars, shardVars, pipeVars, regVars, sigVars>>

\* TimeStretchPerturbation(min_speed_rate, max_speed_rate, num_rates)
ConstructTimeStretch ==
  /\ NoRequestYet
  /\ \E lo \in RateNums, hi \in RateNums, num \in NumRates :
       LET c == TimeStretchInit(lo, hi, num)
       IN p' = c.obj /\ err' = c.err
  /\ last' = "init"
  /\ UNCHANGED <<data, in_data, aux, speed_rate, delay_after, log>>
  /\ UNCHANGED <<streamVars, shardVars, pipeVars, regVars, sigVars>>

\* ImpulsePerturbation(manifest_path, audio_tar_filepaths) and
\* NoisePerturbation(manifest_path, audio_tar_filepaths): the manifest is loaded,
\* and with archives an AugmentationDataset is built on them
ConstructSource(kind) ==
  /\ NoRequestYet
  /\ \E tarred \in BOOLEAN, m \in SUBSET (1..MaxNoise) :
       /\ p' = SourceInit(kind, tarred)
       /\ mapping' = m
       /\ IF tarred
          THEN \E ds \in SUBSET {Filename(id) : id \in 1..MaxNoise} :
                 /\ audio_dataset' = ds
                 /\ \E seq \in Perms(ds) : audio_iter' = OpenIter(seq)
                 /\ opens' = 1
          ELSE UNCHANGED <<audio_dataset, audio_iter, opens>>
  /\ err' = "none"
  /\ last' = "init"
  /\ UNCHANGED <<noise_list, calls, drain_pulls, gen, draws, yielded, this_pass>>
  /\ UNCHANGED <<data, in_data, aux, speed_rate, delay_after, log>>
  /\ UNCHANGED <<shardVars, pipeVars, regVars, sigVars>>

\* SpeedPerturbation.perturb(data). The object keeps nothing from one call to
\* the next, so a behaviour holds one call.
SpeedPerturb ==
  /\ p.kind = "speed"
  /\ last = "init"
  /\ \E d \in Buffers :
       /\ in_data' = d
       /\ IF DrawRates(p) = {}
          THEN err' = "AttributeError" /\ data' = d /\ speed_rate' = NoRate /\ log' = <<>>
          ELSE \E rate \in DrawRates(p) :
                 LET r == SpeedResult(p, d, rate)
                 IN err' = r.err /\ data' = r.data /\ speed_rate' = rate /\ log' = r.log
  /\ last' = "perturb"
  /\ UNCHANGED <<p, aux, delay_after>>
  /\ UNCHANGED <<streamVars, shardVars, pipeVars, regVars, sigVars>>

\* TimeStretchPerturbation.perturb(data), one call per behaviour as for Speed
TimeStretchPerturb ==
  /\ p.kind = "time_stretch"
  /\ last = "init"
  /\ \E d \in Buffers :
       /\ in_data' = d
       /\ IF DrawRates(p) = {}
          THEN err' = "AttributeError" /\ data' = d /\ speed_rate' = NoRate /\ log' = <<>>
          ELSE \E rate \in DrawRates(p) :
                 LET r == TimeStretchResult(p, d, rate)
                 IN err' = r.err /\ data' = r.data /\ speed_rate' = rate /\ log' = r.log
  /\ last' = "perturb"
  /\ UNCHANGED <<p, aux, delay_after>>
  /\ UNCHANGED <<streamVars, shardVars, pipeVars, regVars, sigVars>>

\* ImpulsePerturbation.perturb(data)
ImpulsePerturb ==
  /\ p.kind = "impulse"
  /\ \E d \in Buffers :
       LET f == FetchFromSource(p, d.sample_rate)
       IN /\ in_data' = d
          /\ ApplyFetch(f)
          /\ err' = f.err
          /\ IF f.err # "none"
             THEN data' = d /\ aux' = NoSegment /\ delay_after' = 0
             ELSE \E impulse \in f.cands :
                    \E max_ind \in PeakChoices(impulse.num_samples) :
                      /\ aux' = impulse
                      /\ delay_after' = impulse.num_samples - max_ind
                      /\ data' = ImpulseConvolve(d, impulse, max_ind)
  /\ last' = "perturb"
  /\ UNCHANGED <<p, speed_rate, log>>
  /\ UNCHANGED <<shardVars, pipeVars, regVars, sigVars>>

\* NoisePerturbation.get_one_noise_sample(target_sr)
GetOneNoiseSample ==
  /\ p.kind = "noise"
  /\ \E target_sr \in SampleRates :
       LET f == FetchFromSource(p, target_sr)
       IN /\ ApplyFetch(f)
          /\ err' = f.err
          /\ IF f.err # "none"
             THEN aux' = NoSegment
             ELSE \E noise \in f.cands : aux' = noise
  /\ last' = "get_one_noise_sample"
  /\ UNCHANGED <<p, data, in_data, speed_rate, delay_after, log>>
  /\ UNCHANGED <<shardVars, pipeVars, regVars, sigVars>>

\* NoisePerturbation.perturb(data): fetch, then perturb_with_input_noise
NoisePerturb ==
  /\ p.kind = "noise"
  /\ \E d \in Buffers :
       LET f == FetchFromSource(p, d.sample_rate)
       IN /\ in_data' = d
          /\ ApplyFetch(f)
          /\ IF f.err # "none"
             THEN err' = f.err /\ data' = d /\ aux' = NoSegment
             ELSE \E noise \in f.cands, u \in 0..UGrid :
                    LET r == InputNoiseResult(d, noise, u)
                    IN aux' = noise /\ err' = r.err /\ data' = r.data
  /\ last' = "perturb"
  /\ UNCHANGED <<p, speed_rate, delay_after, log>>
  /\ UNCHANGED <<shardVars, pipeVars, regVars, sigVars>>

NextPerturb ==
  \/ ConstructSpeed
  \/ ConstructTimeStretch
  \/ ConstructSource("impulse")
  \/ ConstructSource("noise")
  \/ SpeedPerturb
  \/ TimeStretchPerturb
  \/ ImpulsePerturb
  \/ GetOneNoiseSample
  \/ NoisePerturb

SpecPerturb == InitPerturb /\ [][NextPerturb]_vars

\* ------------------------------------------- the registry and from_config
\* the names and classes callers register, the entries configurations hold
GivenNames == {"speed", "my_noise"}
GivenClasses == {"MyPerturbation", "GainPerturbation"}
ConfigProbs == {1, ProbDen}
SpeedCfgs ==
  [sr : {SrUnit}, resample_type : GivenResampleTypes, min_speed_rate : {RateDen},
   max_speed_rate : {RateDen}, num_rates : {1}]
ConfigEntries ==
  [aug_type : {"speed"}, prob : ConfigProbs, cfg : SpeedCfgs]
    \cup [aug_type : {"my_noise"}, prob : ConfigProbs, cfg : {[rng |-> "None"]}]
Configs == UNION {[1..n -> ConfigEntries] : n \in 0..MaxCfg}

\* register_perturbation without the test of line 447
RegisteredOverwriting(types, name, perturbation) ==
  [err |-> "none",
   types |-> [n \in (DOMAIN types) \cup {name} |->
                IF n = name THEN perturbation ELSE types[n]]]

\* lines 446-452: register_perturbation(name, perturbation) on the registry
\* types: the exception raised and the registry afterwards
Registered(types, name, perturbation) ==
  IF name \in DOMAIN types
  THEN [err |-> "KeyError", types |-> types]
  ELSE [err |-> "none",
        types |-> [n \in (DOMAIN types) \cup {name} |->
                     IF n = name THEN perturbation ELSE types[n]]]

\* line 480: perturbation(**p['cfg']), the constructor call of a stage
Instantiate(class, cfg) ==
  IF class = "SpeedPerturbation"
  THEN SpeedInit(cfg.sr, cfg.resample_type, cfg.min_speed_rate, cfg.max_speed_rate,
                 cfg.num_rates)
  ELSE [err |-> "none", obj |-> [kind |-> class]]

\* from_config that looks every kind up without the test of lines 476-478
RECURSIVE FromConfigStrict(_, _, _, _)
FromConfigStrict(types, cfgs, i, ptbs) ==
  IF i > Len(cfgs)
  THEN [err |-> "none", ptbs |-> ptbs]
  ELSE IF cfgs[i].aug_type \notin DOMAIN types
  THEN [err |-> "KeyError", ptbs |-> <<>>]
  ELSE LET c == Instantiate(types[cfgs[i].aug_type], cfgs[i].cfg)
       IN IF c.err # "none"
          THEN [err |-> c.err, ptbs |-> <<>>]
          ELSE FromConfigStrict(types, cfgs, i + 1,
                                Append(ptbs, [prob |-> cfgs[i].prob, p |-> c.obj]))

\* lines 474-481: the loop of from_config from entry i on, ptbs built so far; an
\* exception of a constructor ends the call and no augmentor is made
RECURSIVE FromConfigFrom(_, _, _, _)
FromConfigFrom(types, cfgs, i, ptbs) ==
  IF i > Len(cfgs)
  THEN [err |-> "none", ptbs |-> ptbs]
  ELSE IF cfgs[i].aug_type \notin DOMAIN types
  THEN FromConfigFrom(types, cfgs, i + 1, ptbs)
  ELSE LET c == Instantiate(types[cfgs[i].aug_type], cfgs[i].cfg)
       IN IF c.err # "none"
          THEN [err |-> c.err, ptbs |-> <<>>]
          ELSE FromConfigFrom(types, cfgs, i + 1,
                              Append(ptbs, [prob |-> cfgs[i].prob, p |-> c.obj]))

InitRegistry ==
  /\ IdleStream
  /\ IdleShard
  /\ IdlePipe
  /\ IdlePert
  /\ IdleSig
  /\ IdleReg

\* register_perturbation(name, perturbation)
RegisterPerturbation ==
  /\ \E name \in GivenNames, perturbation \in GivenClasses :
       LET r == Registered(perturbation_types, name, perturbation)
       IN /\ perturbation_types' = r.types
          /\ raised' = r.err
          /\ call' = [op |-> "register_perturbation", name |-> name,
                      perturbation |-> perturbation]
  /\ UNCHANGED config
  /\ UNCHANGED <<streamVars, shardVars, pipeVars, pertVars, sigVars>>

\* AudioAugmentor.from_config(config): the augmentor's _pipeline is ptbs. A
\* behaviour builds one augmentor, registrations may come before and after it.
FromConfig ==
  /\ config = <<>>
  /\ pipeline = <<>>
  /\ \E cfgs \in Configs :
       LET r == FromConfigFrom(perturbation_types, cfgs, 1, <<>>)
       IN /\ config' = cfgs
          /\ raised' = r.err
          /\ pipeline' = r.ptbs
  /\ call' = [op |-> "from_config"]
  /\ UNCHANGED perturbation_types
  /\ UNCHANGED <<augmented, rolls, applied, segment>>
  /\ UNCHANGED <<streamVars, shardVars, pertVars, sigVars>>

NextRegistry ==
  \/ RegisterPerturbation
  \/ FromConfig

SpecRegistry == InitRegistry /\ [][NextRegistry]_vars

\* ------------------------------------------------ sample-level requests
\* the segments given to Shift: a ramp, whose every sample is distinct and not
\* zero, and a run of ones, of every length
Ramp(n) == [i \in 1..n |-> i]
Ones(n) == [i \in 1..n |-> 1]
ShiftBuffers == {Ramp(n) : n \in 1..MaxBuf} \cup {Ones(n) : n \in 1..MaxBuf}

\* line 274 and 277: milliseconds per second
MsPerSecond == 1000
ShiftRates == {MsPerSecond * k : k \in 1..MaxSr}

\* whole numbers of milliseconds, in the unit 1/RateDen of Uniform
ShiftBounds == {RateDen * m : m \in (0 - MaxShiftMs)..MaxShiftMs}

\* lines 267-270: ShiftPerturbation.__init__
ShiftInit(min_shift_ms, max_shift_ms) ==
  [kind |-> "shift", min_shift_ms |-> min_shift_ms, max_shift_ms |-> max_shift_ms]

Abs(x) == IF x < 0 THEN 0 - x ELSE x

\* line 274: abs(shift_ms) / 1000 > data.duration, for n samples at rate sr
ShiftTooLong(ms, n, sr) == Abs(ms.n) * sr > n * ms.d * MsPerSecond

\* line 277: int(shift_ms * data.sample_rate // 1000), a floor division
ShiftSamples(ms, sr) == (ms.n * sr) \div (ms.d * MsPerSecond)

\* a shift that rotates the samples instead of dropping them
ShiftedWrapping(x, s) ==
  [i \in 1..Len(x) |-> x[(((i - 1) + s) % Len(x)) + 1]]

\* lines 279-284: data._samples after the two slice assignments
Shifted(x, s) ==
  LET n == Len(x)
  IN IF s < 0
     THEN [i \in 1..n |-> IF i <= 0 - s THEN 0 ELSE x[i + s]]
     ELSE IF s > 0
     THEN [i \in 1..n |-> IF i <= n - s THEN x[i + s] ELSE 0]
     ELSE x

\* the noise segments given to a mixing request, and the targets: silent ones
\* and ones of constant amplitude
MixSeqs == UNION {[1..n -> {0, 1}] : n \in 1..MaxMix}
MixTargets == {x \in MixSeqs : \A i \in 1..Len(x) : x[i] = x[1]}

\* x[a:b] of Python for 0 <= a
PySlice(x, a, b) == SubSeq(x, a + 1, Min(b, Len(x)))

\* A level of x dB is held as the power ratio 10 ** (x / 10), a fraction n/d:
\* -inf dB is 0/d, +inf dB is n/0, not-a-number is 0/0; a difference of levels
\* is a quotient of powers. snr_db and max_gain_db are whole multiples of
\* 10 * log10(2) dB, a level of l such units being the power 2 ** l.
RECURSIVE SumSq(_)
SumSq(x) == IF x = <<>> THEN 0 ELSE (Head(x) * Head(x)) + SumSq(Tail(x))

\* rms_db of a segment: the mean of the squared samples
MeanSquare(x) == [n |-> SumSq(x), d |-> Len(x)]

PowerOfLevel(l) == IF l >= 0 THEN [n |-> 2 ^ l, d |-> 1] ELSE [n |-> 1, d |-> 2 ^ (0 - l)]

\* a - b of two levels
LevelDiff(a, b) == [n |-> a.n * b.d, d |-> a.d * b.n]

\* a < b of floats: false when either is not-a-number
LevelLess(a, b) == (a.n * b.d) < (b.n * a.d)

\* min(a, b) of Python: b only when b < a
PyMin(a, b) == IF LevelLess(b, a) THEN b ELSE a

\* a level is a finite float or -inf, so that 10 ** (level / 20) is finite
FiniteGain(g) == g.d > 0

\* lines 365-366 and 396-397: `if not data_rms: data_rms = data.rms_db`; the
\* argument is None, or a level
NoArg == [given |-> FALSE]
ResolvedRms(data_rms, x) ==
  IF (~data_rms.given) \/ (data_rms.v.n = data_rms.v.d)
  THEN MeanSquare(x)
  ELSE data_rms.v

\* noise_gain_db of lines 370 and 399 without the clipping
UnclippedGain(data_rms, noise_rms, snr_db) ==
  LevelDiff(LevelDiff(data_rms, noise_rms), PowerOfLevel(snr_db))

\* lines 370 and 399: noise_gain_db
NoiseGainDb(data_rms, noise_rms, snr_db, max_gain_db) ==
  PyMin(UnclippedGain(data_rms, noise_rms, snr_db), PowerOfLevel(max_gain_db))

\* lines 331-348: NoisePerturbation.__init__ as far as mixing uses it
NoiseInit(min_snr_db, max_snr_db, max_gain_db) ==
  [kind |-> "noise", min_snr_db |-> min_snr_db, max_snr_db |-> max_snr_db,
   max_gain_db |-> max_gain_db]

\* lines 364 and 395: self._rng.uniform(self._min_snr_db, self._max_snr_db)
SnrDraws(obj) ==
  {obj.min_snr_db + (((obj.max_snr_db - obj.min_snr_db) * u) \div UGrid) : u \in 0..UGrid}

\* data._samples[idx : idx + len(noise_samples)] += noise_samples, on the
\* record acc of what has been added to each sample
AddAt(acc, idx, noise_samples) ==
  [i \in 1..Len(acc) |->
     IF idx < i /\ i <= idx + Len(noise_samples)
     THEN Append(acc[i], noise_samples[i - idx])
     ELSE acc[i]]

NothingAdded(n) == [i \in 1..n |-> <<>>]

\* lines 376-385: noise_samples of one injection of perturb_with_point_noise into
\* n_data samples, for the draws u/UGrid of start_time and v/UGrid of noise_dur
PointSlice(n_data, nz, sr, max_noise_dur, u, v) ==
  LET start_sample == RoundHalfEven(Len(nz) * u, UGrid)
      end_num == Min(Len(nz) * UGrid, (Len(nz) * u) + (max_noise_dur * v * sr))
      end_sample == RoundHalfEven(end_num, UGrid)
      cut == PySlice(nz, start_sample, end_sample)
  IN IF Len(cut) > n_data THEN SubSeq(cut, 1, n_data) ELSE cut

\* an upper end of randint that lets the slice run past the end of data
MaxNoiseIdxAnywhere(n_data, n_slice) == n_data

\* line 390: the upper end of self._rng.randint(0, ...), itself included
MaxNoiseIdx(n_data, n_slice) == n_data - n_slice

\* lines 376-390: the injections one pass of the loop can make, over the draws
\* of start_time, noise_dur and noise_idx
PointInjections(n_data, nz, sr, max_noise_dur) ==
  UNION {LET cut == PointSlice(n_data, nz, sr, max_noise_dur, u, v)
         IN {[noise_idx |-> w, noise_samples |-> cut] :
               w \in 0..MaxNoiseIdx(n_data, Len(cut))} :
           u \in 0..UGrid, v \in 0..UGrid}

\* line 391 for the injections adds[j..], in order
RECURSIVE AddAll(_, _, _)
AddAll(acc, adds, j) ==
  IF j > Len(adds) THEN acc
  ELSE AddAll(AddAt(acc, adds[j].noise_idx, adds[j].noise_samples), adds, j + 1)

\* the data_rms arguments a caller passes: None, 0.0 dB, and one unit below
RmsArgs ==
  {NoArg, [given |-> TRUE, v |-> PowerOfLevel(0)], [given |-> TRUE, v |-> PowerOfLevel(0 - 1)]}

InitSignal ==
  /\ IdleStream
  /\ IdleShard
  /\ IdlePipe
  /\ IdlePert
  /\ IdleReg
  /\ IdleSig

\* ShiftPerturbation(min_shift_ms, max_shift_ms)
ConstructShift ==
  /\ NoRequestYet
  /\ \E lo \in ShiftBounds, hi \in ShiftBounds : p' = ShiftInit(lo, hi)
  /\ err' = "none"
  /\ last' = "init"
  /\ UNCHANGED <<data, in_data, aux, speed_rate, delay_after, log>>
  /\ UNCHANGED <<streamVars, shardVars, pipeVars, regVars, sigVars>>

\* ShiftPerturbation.perturb(data), lines 272-284. The object keeps nothing from
\* one call to the next, so a behaviour holds one call.
ShiftPerturb ==
  /\ p.kind = "shift"
  /\ last = "init"
  /\ \E x \in ShiftBuffers, sr \in ShiftRates, ms \in Uniform(p.min_shift_ms, p.max_shift_ms) :
       /\ in_samples' = x
       /\ sample_rate' = sr
       /\ shift_ms' = ms
       /\ IF ShiftTooLong(ms, Len(x), sr)
          THEN samples' = x /\ shift_samples' = 0
          ELSE /\ shift_samples' = ShiftSamples(ms, sr)
               /\ samples' = Shifted(x, ShiftSamples(ms, sr))
  /\ err' = "none"
  /\ last' = "perturb"
  /\ UNCHANGED <<noise_seg, added, mix>>
  /\ UNCHANGED <<p, data, in_data, aux, speed_rate, delay_after, log>>
  /\ UNCHANGED <<streamVars, shardVars, pipeVars, regVars>>

\* the configurations of a NoisePerturbation: (min_snr_db, max_snr_db, max_gain_db)
NoiseCfgs == {0} \X {0, UGrid} \X {0, MaxGain}

\* NoisePerturbation(min_snr_db, max_snr_db, max_gain_db), the noise segments
\* being handed to its mixing methods by the caller
ConstructNoise(cfgs) ==
  /\ NoRequestYet
  /\ \E c \in cfgs : p' = NoiseInit(c[1], c[2], c[3])
  /\ err' = "none"
  /\ last' = "init"
  /\ UNCHANGED <<data, in_data, aux, speed_rate, delay_after, log>>
  /\ UNCHANGED <<streamVars, shardVars, pipeVars, regVars, sigVars>>

\* what both mixing methods record of the gain: lines 364-370 and 395-399
MixRecord(op, obj, x, nz, data_rms, snr_db, max_additions, adds) ==
  LET rms == ResolvedRms(data_rms, x)
  IN [op |-> op, arg |-> data_rms, max_additions |-> max_additions, snr_db |-> snr_db, data_rms |-> rms, noise_rms |-> MeanSquare(nz),
      noise_gain_db |-> NoiseGainDb(rms, MeanSquare(nz), snr_db, obj.max_gain_db),
      additions |-> adds]

\* NoisePerturbation.perturb_with_input_noise(data, noise, data_rms), lines
\* 393-413. A call leaves nothing in the object, so a behaviour holds one call.
PerturbWithInputNoise ==
  /\ p.kind = "noise"
  /\ last = "init"
  /\ \E x \in MixTargets, nz \in MixSeqs, sr \in {SrUnit}, data_rms \in RmsArgs,
        snr_db \in SnrDraws(p), u \in 0..UGrid :
       LET b == InputNoiseBounds([sample_rate |-> sr, num_samples |-> Len(x)],
                                 [sample_rate |-> sr, num_samples |-> Len(nz)], u)
           noise_samples == PySlice(nz, b.start_sample, b.end_sample)
           adds == <<[noise_idx |-> 0, noise_samples |-> noise_samples]>>
       IN /\ in_samples' = x
          /\ sample_rate' = sr
          /\ noise_seg' = [samples |-> nz, sample_rate |-> sr]
          /\ mix' = MixRecord("input", p, x, nz, data_rms, snr_db, 1, adds)
          /\ IF Len(noise_samples) > Len(x)
             THEN err' = "ValueError" /\ added' = NothingAdded(Len(x))
             ELSE err' = "none" /\ added' = AddAll(NothingAdded(Len(x)), adds, 1)
  /\ last' = "perturb_with_input_noise"
  /\ UNCHANGED <<samples, shift_ms, shift_samples>>
  /\ UNCHANGED <<p, data, in_data, aux, speed_rate, delay_after, log>>
  /\ UNCHANGED <<streamVars, shardVars, pipeVars, regVars>>

\* NoisePerturbation.perturb_with_point_noise(data, noise, data_rms,
\* max_noise_dur, max_additions), lines 363-391, for targets, noises and
\* max_additions of the given sets; one call per behaviour as above
PerturbWithPointNoise(targets, noises, additions, args) ==
  /\ p.kind = "noise"
  /\ last = "init"
  /\ \E x \in targets, nz \in noises, sr \in {SrUnit}, data_rms \in args,
        snr_db \in SnrDraws(p), max_noise_dur \in 1..MaxDur, max_additions \in additions :
       \E n_additions \in 1..max_additions :
         \E adds \in [1..n_additions -> PointInjections(Len(x), nz, sr, max_noise_dur)] :
           /\ in_samples' = x
           /\ sample_rate' = sr
           /\ noise_seg' = [samples |-> nz, sample_rate |-> sr]
           /\ mix' = MixRecord("point", p, x, nz, data_rms, snr_db, max_additions, adds)
           /\ added' = AddAll(NothingAdded(Len(x)), adds, 1)
  /\ err' = "none"
  /\ last' = "perturb_with_point_noise"
  /\ UNCHANGED <<samples, shift_ms, shift_samples>>
  /\ UNCHANGED <<p, data, in_data, aux, speed_rate, delay_after, log>>
  /\ UNCHANGED <<streamVars, shardVars, pipeVars, regVars>>

NextSignal ==
  \/ ConstructShift
  \/ ShiftPerturb
  \/ ConstructNoise(NoiseCfgs)
  \/ PerturbWithInputNoise
  \/ PerturbWithPointNoise(MixTargets, MixSeqs, {1}, RmsArgs)

SpecSignal == InitSignal /\ [][NextSignal]_vars

\* injections alone: sources whose samples are all distinct, several injections
PointTargets == {Ones(n) : n \in 1..MaxMix}
PointNoises == {Ramp(n) : n \in 1..MaxMix}

NextPoint ==
  \/ ConstructNoise({<<0, 0, MaxGain>>})
  \/ PerturbWithPointNoise(PointTargets, PointNoises, 1..MaxAdd, {NoArg})

SpecPoint == InitSignal /\ [][NextPoint]_vars

\* ------------------------------------------- WhiteNoisePerturbation
Levels == (0 - MaxLevel)..0

\* lines 423-426: WhiteNoisePerturbation.__init__ with the default rng, a
\* numpy RandomState
WhiteNoiseInit(min_level, max_level) ==
  [kind |-> "white_noise", min_level |-> min_level, max_level |-> max_level]

\* line 429: RandomState.randint(low, high) returns an integer of [low, high)
\* and raises ValueError when low >= high
Randint(low, high) ==
  IF low >= high
  THEN [err |-> "ValueError", values |-> {}]
  ELSE [err |-> "none", values |-> low..(high - 1)]

\* line 430: the values randn may return for n samples, on a grid of two
Randn(n) == [1..n -> {-1, 1}]

\* WhiteNoisePerturbation(min_level, max_level)
ConstructWhiteNoise ==
  /\ NoRequestYet
  /\ \E min_level \in Levels, max_level \in Levels :
       p' = WhiteNoiseInit(min_level, max_level)
  /\ err' = "none"
  /\ last' = "init"
  /\ UNCHANGED <<data, in_data, aux, speed_rate, delay_after, log>>
  /\ UNCHANGED <<streamVars, shardVars, pipeVars, regVars, sigVars>>

\* lines 428-431: WhiteNoisePerturbation.perturb(data). added[i] is what was
\* added to sample i, to be scaled by 10 ** (noise_level_db / 20)
WhiteNoisePerturb ==
  /\ p.kind = "white_noise"
  /\ last = "init"
  /\ \E x \in MixTargets :
       LET r == Randint(p.min_level, p.max_level)
       IN /\ in_samples' = x
          /\ err' = r.err
          /\ IF r.err # "none"
             THEN mix' = NoMix /\ added' = NothingAdded(Len(x))
             ELSE \E noise_level_db \in r.values, g \in Randn(Len(x)) :
                    /\ mix' = [op |-> "white_noise", noise_level_db |-> noise_level_db]
                    /\ added' = [i \in 1..Len(x) |-> <<g[i]>>]
  /\ last' = "perturb"
  /\ UNCHANGED <<samples, sample_rate, shift_ms, shift_samples, noise_seg>>
  /\ UNCHANGED <<p, data, in_data, aux, speed_rate, delay_after, log>>
  /\ UNCHANGED <<streamVars, shardVars, pipeVars, regVars>>

NextWhite ==
  \/ ConstructWhiteNoise
  \/ WhiteNoisePerturb

SpecWhite == InitSignal /\ [][NextWhite]_vars

\* ------------------------------------------ RirAndNoisePerturbation
\* A source of the composite is the Impulse or Noise perturbation it builds: its
\* archives decode to the segments archive (their sample counts), noise_list is
\* its cache, and has_noise_list tells whether __init__ made the attribute.
Source(tarred, archive) ==
  [tarred_audio |-> tarred, has_noise_list |-> tarred, archive |-> archive,
   noise_list |-> <<>>]

\* what the archives of a source decode to
Archives == {<<>>, <<1, MaxNoise>>} \cup {<<n>> : n \in 1..MaxNoise}
Sources == {Source(FALSE, <<>>)} \cup {Source(TRUE, a) : a \in Archives}

\* lines 298-313: RirAndNoisePerturbation.__init__; without bg_noise_manifest_path
\* there is no background perturber
RirAndNoiseInit(rir, fg, has_bg, bg, apply_noise_rir) ==
  [kind |-> "rir_noise", rir |-> rir, fg |-> fg, has_bg |-> has_bg,
   bg |-> IF has_bg THEN bg ELSE Source(FALSE, <<>>), apply_noise_rir |-> apply_noise_rir]

\* an entry of the log of a composite request: the step, the segment it works
\* on, and the state of the target whose rms_db it is given as data_rms
Step(name, on, ref) == [step |-> name, on |-> on, data_rms |-> ref]

\* lines 254-257, 351-354, 357-360 on a source: the cache is filled from the
\* archives when it is empty, and one of its segments is picked
Fetched(src) ==
  IF ~src.has_noise_list
  THEN [err |-> "AttributeError", src |-> src]
  ELSE LET filled == IF src.noise_list = <<>>
                     THEN [src EXCEPT !.noise_list = src.archive]
                     ELSE src
       IN [err |-> IF filled.noise_list = <<>> THEN "ValueError" ELSE "none",
           src |-> filled]

\* lines 253-263: ImpulsePerturbation.perturb of source src on a segment of n
\* samples: the outcomes over the impulse picked and the place of its peak
ImpulseOutcomes(src, n) ==
  LET f == Fetched(src)
  IN IF f.err # "none"
     THEN {[err |-> f.err, src |-> f.src, n |-> n]}
     ELSE UNION {{[err |-> "none", src |-> f.src,
                   n |-> ImpulseConvolve([num_samples |-> n],
                                         [num_samples |-> f.src.noise_list[k]],
                                         max_ind).num_samples] :
                     max_ind \in PeakChoices(f.src.noise_list[k])} :
                   k \in 1..Len(f.src.noise_list)}

\* what a composite request leaves: the error raised, the steps run, the
\* samples of the target, and the three sources
Outcome(e, lg, n, rir, fg, bg) ==
  [err |-> e, log |-> lg, n |-> n, rir |-> rir, fg |-> fg, bg |-> bg]

Seg(sr, n) == [file_id |-> 0, sample_rate |-> sr, num_samples |-> n]

\* lines 326-327: the background perturber, when there is one, mixes in input
\* mode with the data_rms the request read
BackgroundOutcomes(obj, sr, n, data_rms, lg, rir, fg) ==
  IF ~obj.has_bg
  THEN {Outcome("none", lg, n, rir, fg, obj.bg)}
  ELSE LET f == Fetched(obj.bg)
           lg_bg == Append(lg, Step("perturb", "data", data_rms))
       IN IF f.err # "none"
          THEN {Outcome(f.err, lg_bg, n, rir, fg, f.src)}
          ELSE {Outcome(InputNoiseResult(Seg(sr, n), Seg(sr, f.src.noise_list[k]), u).err,
                        lg_bg, n, rir, fg, f.src) :
                  k \in 1..Len(f.src.noise_list), u \in 0..UGrid}

\* lines 323-325: perturb_with_point_noise adds in place and leaves len(data)
PointOutcomes(obj, sr, n, data_rms, lg, rir, fg) ==
  BackgroundOutcomes(obj, sr, n, data_rms,
                     Append(lg, Step("perturb_with_point_noise", "data", data_rms)),
                     rir, fg)

\* the same, with the impulse response applied to every noise
NoiseRirAlways(obj, sr, n, data_rms, lg, rir, fg, k) ==
  UNION {IF o.err # "none"
         THEN {Outcome(o.err, Append(lg, Step("perturb", "noise", "-")), n, o.src, fg, obj.bg)}
         ELSE PointOutcomes(obj, sr, n, data_rms,
                            Append(lg, Step("perturb", "noise", "-")), o.src,
                            [fg EXCEPT !.noise_list[k] = o.n]) :
           o \in ImpulseOutcomes(rir, fg.noise_list[k])}

\* lines 321-322: with apply_noise_rir the impulse response is applied to the
\* noise, which is the segment k of the foreground cache itself
NoiseRirOutcomes(obj, sr, n, data_rms, lg, rir, fg, k) ==
  IF ~obj.apply_noise_rir
  THEN PointOutcomes(obj, sr, n, data_rms, lg, rir, fg)
  ELSE UNION {IF o.err # "none"
              THEN {Outcome(o.err, Append(lg, Step("perturb", "noise", "-")), n, o.src, fg, obj.bg)}
              ELSE PointOutcomes(obj, sr, n, data_rms,
                                 Append(lg, Step("perturb", "noise", "-")), o.src,
                                 [fg EXCEPT !.noise_list[k] = o.n]) :
                o \in ImpulseOutcomes(rir, fg.noise_list[k])}

\* line 318: get_one_noise_sample of the foreground perturber
ForegroundOutcomes(obj, sr, n, data_rms, lg, rir) ==
  LET f == Fetched(obj.fg)
      lg_fg == Append(lg, Step("get_one_noise_sample", "-", "-"))
  IN IF f.err # "none"
     THEN {Outcome(f.err, lg_fg, n, rir, f.src, obj.bg)}
     ELSE UNION {NoiseRirOutcomes(obj, sr, n, data_rms, lg_fg, rir, f.src, k) :
                   k \in 1..Len(f.src.noise_list)}

\* what data.rms_db measures once the steps of lg have run: the target as it was
\* given, or the target with the impulse response applied
TargetState(lg) ==
  IF \E i \in DOMAIN lg : lg[i] = Step("perturb", "data", "-")
  THEN "reverberated"
  ELSE "input"

\* lines 315-327: RirAndNoisePerturbation.perturb on a target of n samples at
\* rate sr. data.rms_db is read on line 317, when the impulse response has been
\* applied to the target
RirAndNoiseOutcomes(obj, sr, n) ==
  LET lg == <<Step("perturb", "data", "-")>>
  IN UNION {IF o.err # "none"
            THEN {Outcome(o.err, lg, n, o.src, obj.fg, obj.bg)}
            ELSE ForegroundOutcomes(obj, sr, o.n, TargetState(lg), lg, o.src) :
              o \in ImpulseOutcomes(obj.rir, n)}

InitComposite ==
  /\ IdleStream
  /\ IdleShard
  /\ IdlePipe
  /\ IdlePert
  /\ IdleSig
  /\ IdleReg

\* RirAndNoisePerturbation(rir_tar_filepaths, noise_tar_filepaths,
\*                         bg_noise_manifest_path, bg_noise_tar_filepaths,
\*                         apply_noise_rir)
ConstructRirAndNoise ==
  /\ NoRequestYet
  /\ \E rir \in Sources, fg \in Sources, bg \in Sources, has_bg \in BOOLEAN,
        apply_noise_rir \in BOOLEAN :
       /\ has_bg \/ bg = Source(FALSE, <<>>)
       /\ p' = RirAndNoiseInit(rir, fg, has_bg, bg, apply_noise_rir)
  /\ last' = "init"
  /\ UNCHANGED <<data, in_data, aux, speed_rate, delay_after, err, log>>
  /\ UNCHANGED <<streamVars, shardVars, pipeVars, regVars, sigVars>>

\* RirAndNoisePerturbation.perturb(data)
RirAndNoisePerturb ==
  /\ p.kind = "rir_noise"
  /\ last = "init"
  /\ \E d \in Buffers :
       /\ d.sample_rate = SrUnit
       /\ in_data' = d
       /\ \E o \in RirAndNoiseOutcomes(p, d.sample_rate, d.num_samples) :
            /\ err' = o.err
            /\ log' = o.log
            /\ data' = [d EXCEPT !.num_samples = o.n]
            /\ p' = [p EXCEPT !.rir = o.rir, !.fg = o.fg, !.bg = o.bg]
  /\ last' = "perturb"
  /\ UNCHANGED <<aux, speed_rate, delay_after>>
  /\ UNCHANGED <<streamVars, shardVars, pipeVars, regVars, sigVars>>

NextComposite ==
  \/ ConstructRirAndNoise
  \/ RirAndNoisePerturb

SpecComposite == InitComposite /\ [][NextComposite]_vars

\* =============================================== claims on the stream
\* the archive has at least one member the manifest knows
HasMatching == \E f \in audio_dataset : FileId(f) \in mapping

\* positions of the current pass not yet consumed whose member is in the manifest
MatchingAhead ==
  {i \in (audio_iter.pos + 1)..Len(audio_iter.seq) : FileId(audio_iter.seq[i]) \in mapping}

\* C1 as stated: for any finite archive every draw from the stream returns a
\* record, the generator never ends or fails
C1_EveryDrawReturnsARecord == gen = "active" /\ Len(yielded) = draws

\* C1 amended: when the archive holds at least one member of the manifest, every
\* draw from the stream returns a record and the generator never ends or fails
C1_EveryDrawReturnsWhenNonEmpty ==
  HasMatching => (gen = "active" /\ Len(yielded) = draws)

\* more draws than the archive has members, served through a reopened iterator
C1_Witness ==
  /\ HasMatching
  /\ opens >= 2
  /\ draws > Cardinality(audio_dataset)
  /\ Len(yielded) = draws

\* C2: once a first get_all_data call has returned, a later call leaves the
\* cached list as it was and takes nothing from the archive iterator
C2_GetAllDataIdempotent ==
  [][(calls >= 1 /\ calls' = calls + 1)
       => (noise_list' = noise_list /\ audio_iter' = audio_iter)]_vars

\* C3: a get_all_data call returns after one next() per remaining manifest member
\* plus the one that signals exhaustion, leaves the iterator exhausted and never
\* reopens the archive; a call on a populated cache pulls nothing
C3_DrainStopsAtFirstExhaustion ==
  [][(calls' = calls + 1) =>
       /\ opens' = opens
       /\ audio_iter'.seq = audio_iter.seq
       /\ IF noise_list = <<>>
          THEN /\ audio_iter'.pos = Len(audio_iter.seq)
               /\ drain_pulls' = Cardinality(MatchingAhead) + 1
               /\ Len(noise_list') = Cardinality(MatchingAhead)
          ELSE /\ audio_iter' = audio_iter
               /\ drain_pulls' = 0]_vars

\* a drain that decoded at least two members and stopped at the end of the pass
C3_Witness ==
  /\ calls >= 1
  /\ drain_pulls >= 3
  /\ Len(noise_list) >= 2
  /\ audio_iter.pos = Len(audio_iter.seq)

\* C4: every identifier the stream yielded and every cached buffer's identifier
\* is in the manifest's index
C4_OnlyManifestIds ==
  /\ \A i \in 1..Len(yielded) : yielded[i] \in mapping
  /\ \A i \in 1..Len(noise_list) : noise_list[i].file_id \in mapping

\* a member absent from the manifest was passed over while others were yielded
\* and cached
C4_Witness ==
  /\ \E i \in 1..audio_iter.pos : FileId(audio_iter.seq[i]) \notin mapping
  /\ yielded # <<>>
  /\ noise_list # <<>>

\* the identifiers of the members of the archive the manifest knows
MatchingIds == {FileId(f) : f \in {g \in audio_dataset : FileId(g) \in mapping}}

\* ids holds every identifier of S exactly once
EachOnce(ids, S) ==
  /\ Len(ids) = Cardinality(S)
  /\ {ids[i] : i \in 1..Len(ids)} = S

\* the first member of the pass seq that the manifest knows
FirstMatching(seq) ==
  FileId(seq[CHOOSE i \in 1..Len(seq) :
               /\ FileId(seq[i]) \in mapping
               /\ \A j \in 1..(i - 1) : FileId(seq[j]) \notin mapping])

StreamDraw == draws' = draws + 1
Restart == opens' = opens + 1

\* C21: on an archive with a member the manifest knows, the generator reopens
\* the archive only on a draw that finds the iterator exhausted, that draw
\* yields the first record of the new pass, and the pass it closes yielded
\* every record of the manifest exactly once
C21_RestartClosesAFullPass ==
  [][(HasMatching /\ StreamDraw /\ Restart) =>
       /\ MatchingAhead = {}
       /\ yielded' = Append(yielded, FirstMatching(audio_iter'.seq))
       /\ EachOnce(this_pass, MatchingIds)]_vars

\* the identifiers of the cached buffers, in the order of the cache
CachedIds == [i \in 1..Len(noise_list) |-> noise_list[i].file_id]

\* C24: once get_all_data has returned, the cached list holds every member of
\* the archive the manifest knows exactly once, whatever was drawn from the
\* stream before the call
C24_CacheHoldsEveryRecordOnce ==
  calls >= 1 => EachOnce(CachedIds, MatchingIds)

\* ============================================ claims on the partitioning
NumShards == Len(audio_tar_filepaths)

\* the shards assigned to rank r, as a set
ShardSetOf(r) == {tar_list[r][j] : j \in 1..Len(tar_list[r])}

AllShards == {audio_tar_filepaths[i] : i \in 1..NumShards}

\* every rank of the distributed run has constructed its dataset
AllConstructed == distributed /\ constructed = Ranks

\* rank r's block runs past the end of the shard list and wraps around
Wraps(r) == (r * n_tars_per_worker) + n_tars_per_worker > NumShards

\* C5: in a distributed run the worker of rank r holds exactly k shards, the
\* i-th of them (i = 0..k-1) being the shard at index (r*k + i) mod S, whether
\* or not the worker count divides S
C5_RankGetsModularBlock ==
  distributed =>
    \A r \in constructed :
      /\ Len(tar_list[r]) = n_tars_per_worker
      /\ \A i \in 0..(n_tars_per_worker - 1) :
           tar_list[r][i + 1] =
             audio_tar_filepaths[(((r * n_tars_per_worker) + i) % NumShards) + 1]

\* a rank above 0 constructed with S not divisible by W (warning logged) and a
\* block that wraps around the end of the shard list
C5_Witness ==
  /\ distributed
  /\ NumShards % world_size # 0
  /\ \E r \in constructed : r > 0 /\ r \in warned /\ Wraps(r) /\ n_tars_per_worker = 2

\* C6 as stated: with S >= W*k the union of the workers' subsets is the whole
\* shard set, and two workers share a shard only through wrap-around
C6_CoversWhenEnoughShards ==
  (AllConstructed /\ NumShards >= world_size * n_tars_per_worker) =>
    /\ UNION {ShardSetOf(r) : r \in Ranks} = AllShards
    /\ \A r1, r2 \in Ranks :
         (r1 < r2 /\ ShardSetOf(r1) \cap ShardSetOf(r2) # {}) => Wraps(r2)

\* C6 amended: with S <= W*k the union of the workers' subsets is the whole
\* shard set (with S > W*k only the first W*k shards are assigned), and two
\* workers share a shard only through wrap-around
C6_CoversWhenEnoughWorkers ==
  AllConstructed =>
    /\ NumShards <= world_size * n_tars_per_worker
         => UNION {ShardSetOf(r) : r \in Ranks} = AllShards
    /\ NumShards > world_size * n_tars_per_worker
         => UNION {ShardSetOf(r) : r \in Ranks} =
              {audio_tar_filepaths[i] : i \in 1..(world_size * n_tars_per_worker)}
    /\ \A r1, r2 \in Ranks :
         (r1 < r2 /\ ShardSetOf(r1) \cap ShardSetOf(r2) # {}) => Wraps(r2)

\* all workers constructed, fewer shards than W*k, so that the last block wraps
\* and shares a shard with rank 0
C6_Witness ==
  /\ AllConstructed
  /\ world_size >= 2
  /\ NumShards < world_size * n_tars_per_worker
  /\ NumShards > n_tars_per_worker
  /\ UNION {ShardSetOf(r) : r \in Ranks} = AllShards
  /\ \E r \in Ranks : r > 0 /\ ShardSetOf(0) \cap ShardSetOf(r) # {}

\* ============================================== claims on the pipeline
\* s is strictly increasing
Increasing(s) == \A i, j \in 1..Len(s) : i < j => s[i] < s[j]

\* C7: a call draws exactly one value per stage, invokes exactly the stages
\* whose draw is below their probability, in list order on the one segment;
\* probability 1 always runs, probability 0 never
C7_OneDrawPerStageInOrder ==
  augmented =>
    /\ Len(rolls) = Len(pipeline)
    /\ Increasing(applied)
    /\ \A i \in 1..Len(pipeline) :
         /\ (\E j \in 1..Len(applied) : applied[j] = i) <=> (rolls[i] < pipeline[i].prob)
         /\ pipeline[i].prob = ProbDen => \E j \in 1..Len(applied) : applied[j] = i
         /\ pipeline[i].prob = 0 => \A j \in 1..Len(applied) : applied[j] # i
    /\ segment = [j \in 1..Len(applied) |-> pipeline[applied[j]].p]

\* a call on a pipeline with a certain stage, an impossible stage whose draw was
\* 0, and an uncertain stage that did not trigger
C7_Witness ==
  /\ augmented
  /\ \E i, j, k \in 1..Len(pipeline) :
       /\ pipeline[i].prob = ProbDen
       /\ pipeline[j].prob = 0 /\ rolls[j] = 0
       /\ pipeline[k].prob \notin {0, ProbDen} /\ rolls[k] >= pipeline[k].prob
  /\ Len(applied) >= 1

\* ========================================== claims on the perturbations
\* C8: a request to a Noise or Impulse perturbation built from a manifest alone
\* completes without error
C8_ManifestOnlyRequestCompletes ==
  (p.kind \in {"noise", "impulse"} /\ ~p.tarred_audio
     /\ last \in {"perturb", "get_one_noise_sample"})
    => err = "none"

\* C9: after Impulse.perturb with a response shorter than the segment, the
\* segment has as many samples as before
C9_ImpulseKeepsLength ==
  (p.kind = "impulse" /\ last = "perturb" /\ err = "none"
     /\ delay_after < in_data.num_samples)
    => data.num_samples = in_data.num_samples

\* the rate range of a Speed or TimeStretch object is a proper one
ProperRates(obj) ==
  obj.kind \in {"speed", "time_stretch"} => (0 < obj.min_rate /\ obj.min_rate <= obj.max_rate)

\* the least integer not below the fraction f
Ceiling(f) == (f.n + (f.d - 1)) \div f.d

\* C10: after perturb the segment has at most max_augmentation_length(L) samples
\* (rounded up to whole samples), L being its sample count before: L * max_rate
\* for Speed and TimeStretch, L for the other variants
C10_LengthWithinMaxAugmentation ==
  (last = "perturb" /\ err = "none" /\ ProperRates(p))
    => data.num_samples <= Ceiling(MaxAugmentationLength(p, in_data.num_samples))

\* C11: a Speed perturbation that exists was given min_rate <= max_rate,
\* min_rate > 0 and a resample_type of the enumerated set; any other
\* configuration is refused by the constructor
C11_SpeedConfigValidated ==
  p.kind = "speed"
    => (p.min_rate <= p.max_rate /\ p.min_rate > 0 /\ p.res_type \in ResampleTypes)

\* the fraction r lies in [min_rate, max_rate] of obj
InRateRange(r, obj) ==
  (obj.min_rate * r.d <= r.n * RateDen) /\ (r.n * RateDen <= obj.max_rate * r.d)

\* C12: the rate draw of Speed and TimeStretch succeeds on every constructed
\* object (with a proper rate range): with num_rates > 0 the rate is one of the
\* num_rates equally spaced values, with num_rates <= 0 it lies in
\* [min_rate, max_rate]
C12_RateDrawSucceeds ==
  (p.kind \in {"speed", "time_stretch"} /\ last = "perturb" /\ ProperRates(p))
    => /\ err # "AttributeError"
       /\ IF p.num_rates > 0
          THEN speed_rate \in Linspace(p.min_rate, p.max_rate, p.num_rates)
          ELSE InRateRange(speed_rate, p)

\* C19: a Speed or TimeStretch request whose drawn rate is exactly 1.0 changes
\* nothing: the segment (sample count, sample rate) is as before, no resampling
\* and no STFT routine runs, and nothing is raised
C19_IdentityRateIsNoOp ==
  (p.kind \in {"speed", "time_stretch"} /\ last = "perturb"
     /\ speed_rate.n = speed_rate.d)
    => (data = in_data /\ log = <<>> /\ err = "none")

\* a Speed request drew the rate 1.0 from a range that also holds other rates
C19_Witness ==
  /\ p.kind = "speed"
  /\ last = "perturb"
  /\ speed_rate.n = speed_rate.d
  /\ p.min_rate < p.max_rate
  /\ data = in_data

\* ============================================== claims on the registry
\* every built-in kind maps to the class the module gave it
BuiltinsIntact ==
  \A k \in DOMAIN BuiltinTypes :
    k \in DOMAIN perturbation_types /\ perturbation_types[k] = BuiltinTypes[k]

\* C17: register_perturbation with a name the registry holds raises and leaves
\* the registry as it was; with a new name it adds that one mapping and changes
\* no other; so every built-in kind keeps its class
C17_RegistrationNeverOverwrites ==
  [][(call'.op = "register_perturbation")
       => /\ IF call'.name \in DOMAIN perturbation_types
             THEN raised' = "KeyError" /\ perturbation_types' = perturbation_types
             ELSE /\ raised' = "none"
                  /\ DOMAIN perturbation_types'
                       = (DOMAIN perturbation_types) \cup {call'.name}
                  /\ perturbation_types'[call'.name] = call'.perturbation
                  /\ \A n \in DOMAIN perturbation_types :
                       perturbation_types'[n] = perturbation_types[n]
          /\ BuiltinsIntact']_vars

\* a new name has been added and a registration under a built-in name refused
C17_Witness ==
  /\ call.op = "register_perturbation"
  /\ call.name = "speed"
  /\ raised = "KeyError"
  /\ "my_noise" \in DOMAIN perturbation_types
  /\ BuiltinsIntact

\* the entries of cfgs whose kind the registry holds, in their order
RECURSIVE KnownEntries(_, _)
KnownEntries(cfgs, types) ==
  IF cfgs = <<>>
  THEN <<>>
  ELSE IF Head(cfgs).aug_type \in DOMAIN types
  THEN <<Head(cfgs)>> \o KnownEntries(Tail(cfgs), types)
  ELSE KnownEntries(Tail(cfgs), types)

\* the class an object of a pipeline was made by
ClassOf(obj) == IF obj.kind = "speed" THEN "SpeedPerturbation" ELSE obj.kind

\* the constructor of the registered entry e accepts its configuration
ValidCfg(e) ==
  e.aug_type = "speed" => e.cfg.resample_type \in ResampleTypes

\* C18: from_config on a list with unknown kinds does not fail (the registered
\* entries having valid configurations): the pipeline holds exactly the entries
\* whose kind is registered, in their order, with their probabilities
C18_UnknownKindsSkipped ==
  LET known == KnownEntries(config, perturbation_types)
  IN (call.op = "from_config" /\ \A i \in 1..Len(known) : ValidCfg(known[i]))
       => /\ raised = "none"
          /\ Len(pipeline) = Len(known)
          /\ \A i \in 1..Len(known) :
               /\ pipeline[i].prob = known[i].prob
               /\ ClassOf(pipeline[i].p) = perturbation_types[known[i].aug_type]

\* a list with an unknown kind between two registered ones has been built
C18_Witness ==
  /\ call.op = "from_config"
  /\ raised = "none"
  /\ Len(config) = 3
  /\ config[2].aug_type \notin DOMAIN perturbation_types
  /\ Len(pipeline) = 2
  /\ pipeline[1].prob # pipeline[2].prob

\* ================================================ claims on the samples
\* C16: after a Shift of s samples, 0 < |s| <= length, the segment has its
\* length, a positive s has moved every retained sample s places toward the
\* start and zeroed the last s places, a negative s has moved every retained
\* sample |s| places toward the end and zeroed the first |s| places, and nothing
\* wraps around; +5 ms at 1000 samples/s on ten ones gives five ones, five zeros
C16_ShiftMovesAndZeroFills ==
  (p.kind = "shift" /\ last = "perturb"
     /\ 0 < Abs(shift_samples) /\ Abs(shift_samples) <= Len(in_samples))
    => LET n == Len(in_samples)
           k == Abs(shift_samples)
       IN /\ Len(samples) = n
          /\ shift_samples > 0 =>
               \A i \in 1..n : samples[i] = IF i <= n - k THEN in_samples[i + k] ELSE 0
          /\ shift_samples < 0 =>
               \A i \in 1..n : samples[i] = IF i <= k THEN 0 ELSE in_samples[i - k]
          /\ (in_samples = Ones(10) /\ sample_rate = 1000
                /\ shift_ms.n = 5 * shift_ms.d)
               => samples = <<1, 1, 1, 1, 1, 0, 0, 0, 0, 0>>

\* the scenario of the ten ones has been run
C16_Witness ==
  /\ p.kind = "shift"
  /\ last = "perturb"
  /\ shift_samples = 5
  /\ in_samples = Ones(10)
  /\ sample_rate = 1000
  /\ shift_ms.n = 5 * shift_ms.d
  /\ samples = <<1, 1, 1, 1, 1, 0, 0, 0, 0, 0>>

\* the segment x is silent: its rms_db is -inf
Silent(x) == SumSq(x) = 0

\* C13: input-mode mixing of a silent noise onto any target, whatever the
\* target's RMS, raises nothing and leaves every sample of the target finite
\* (the noise slice being one that fits the target)
C13_SilentNoiseLeavesTargetFinite ==
  (last = "perturb_with_input_noise" /\ Silent(noise_seg.samples)
     /\ Len(mix.additions[1].noise_samples) <= Len(in_samples))
    => /\ err = "none"
       /\ \A i \in 1..Len(in_samples) : added[i] = <<>> \/ FiniteGain(mix.noise_gain_db)

\* the injections of the last request
Injections == mix.additions

\* sample i of the target lies in the range of injection a
Covers(a, i) == a.noise_idx < i /\ i <= a.noise_idx + Len(a.noise_samples)

\* C15: point mode makes between 1 and max_additions injections, each of a slice
\* no longer than the target, added at an offset >= 0 with offset + length <=
\* target length; the target keeps its length, and a sample has had added to
\* it exactly the injections whose range holds it, so none outside the ranges
C15_InjectionsFitTheTarget ==
  (last = "perturb_with_point_noise" /\ err = "none")
    => /\ Len(Injections) >= 1
       /\ Len(Injections) <= mix.max_additions
       /\ \A j \in 1..Len(Injections) :
            /\ Len(Injections[j].noise_samples) <= Len(in_samples)
            /\ Injections[j].noise_idx >= 0
            /\ Injections[j].noise_idx + Len(Injections[j].noise_samples) <= Len(in_samples)
       /\ Len(added) = Len(in_samples)
       /\ \A i \in 1..Len(in_samples) :
            Len(added[i]) = Cardinality({j \in 1..Len(Injections) : Covers(Injections[j], i)})

\* two injections at different offsets have left one sample of the target alone
C15_Witness ==
  /\ last = "perturb_with_point_noise"
  /\ Len(Injections) = 2
  /\ Injections[1].noise_idx # Injections[2].noise_idx
  /\ Injections[1].noise_samples # <<>>
  /\ Injections[2].noise_samples # <<>>
  /\ \E i \in 1..Len(in_samples) : added[i] = <<>>

\* levels as powers: a product, and the comparisons of floats
LevelSum(a, b) == [n |-> a.n * b.n, d |-> a.d * b.d]
IsNan(a) == a.n = 0 /\ a.d = 0
LevelEq(a, b) == (~IsNan(a)) /\ (~IsNan(b)) /\ (a.n * b.d = b.n * a.d)
LevelLeq(a, b) == (~IsNan(a)) /\ (~IsNan(b)) /\ (a.n * b.d <= b.n * a.d)

\* C20: in both mixing modes (the target's own RMS being the reference) the gain
\* is min(target_rms_db - noise_rms_db - snr_db, max_gain_db) with snr_db in
\* [min_snr_db, max_snr_db], it never exceeds max_gain_db, and when the unclipped
\* value is <= max_gain_db the RMS of each noise slice added, as scaled, is
\* target_rms_db - snr_db
C20_AddedNoiseSitsSnrBelowTarget ==
  (last \in {"perturb_with_input_noise", "perturb_with_point_noise"} /\ err = "none"
     /\ ~mix.arg.given)
    => LET target == MeanSquare(in_samples)
           unclipped == LevelDiff(LevelDiff(target, MeanSquare(noise_seg.samples)),
                                  PowerOfLevel(mix.snr_db))
           ceiling == PowerOfLevel(p.max_gain_db)
       IN /\ p.min_snr_db <= mix.snr_db /\ mix.snr_db <= p.max_snr_db
          /\ mix.noise_gain_db = IF LevelLess(ceiling, unclipped) THEN ceiling ELSE unclipped
          /\ ~LevelLess(ceiling, mix.noise_gain_db)
          /\ LevelLeq(unclipped, ceiling) =>
               \A j \in 1..Len(Injections) :
                 Injections[j].noise_samples # <<>> =>
                   LevelEq(LevelSum(mix.noise_gain_db, MeanSquare(Injections[j].noise_samples)),
                           LevelDiff(target, PowerOfLevel(mix.snr_db)))

\* two levels are the same float: both not-a-number, or equal
SameLevel(a, b) ==
  \/ IsNan(a) /\ IsNan(b)
  \/ (~IsNan(a)) /\ (~IsNan(b)) /\ (a.n * b.d = b.n * a.d)

\* C26: a mixing request given a reference RMS computes its gain from that
\* value, whatever the value, 0.0 dB included; a request given none computes it
\* from the RMS of the target (the noise being one that is not silent)
C26_GainFromSuppliedReference ==
  (last \in {"perturb_with_input_noise", "perturb_with_point_noise"}
     /\ ~Silent(noise_seg.samples))
    => LET reference == IF mix.arg.given THEN mix.arg.v ELSE MeanSquare(in_samples)
       IN SameLevel(mix.noise_gain_db,
                    NoiseGainDb(reference, MeanSquare(noise_seg.samples), mix.snr_db,
                                p.max_gain_db))

\* ============================================ claims on the composite
StepNames(lg) == [i \in DOMAIN lg |-> <<lg[i].step, lg[i].on>>]

\* the steps of one request of the composite obj, in the order of the claim
ExpectedSteps(obj) ==
  <<<<"perturb", "data">>, <<"get_one_noise_sample", "-">>>>
    \o (IF obj.apply_noise_rir THEN <<<<"perturb", "noise">>>> ELSE <<>>)
    \o <<<<"perturb_with_point_noise", "data">>>>
    \o (IF obj.has_bg THEN <<<<"perturb", "data">>>> ELSE <<>>)

IsPrefix(a, b) == Len(a) <= Len(b) /\ SubSeq(b, 1, Len(a)) = a

\* the target states whose RMS the point-mode mix of lg was given
PointReferences(lg) ==
  {lg[i].data_rms : i \in {j \in DOMAIN lg : lg[j].step = "perturb_with_point_noise"}}

CompositeRan == p.kind = "rir_noise" /\ last = "perturb"

StepsInOrder ==
  /\ IsPrefix(StepNames(log), ExpectedSteps(p))
  /\ err = "none" => StepNames(log) = ExpectedSteps(p)

C25_FetchedBufferHasTargetRate ==
  (p.kind \in {"impulse", "noise"} /\ last = "perturb" /\ err = "none")
    => aux.sample_rate = in_data.sample_rate

\* the cache of src is empty or holds what its archives decoded to
AsDecoded(src) == src.noise_list = <<>> \/ src.noise_list = src.archive

\* C23: after a composite request, with or without the impulse response
\* applied to the foreground noise, every cached buffer of its sources is what
\* was decoded when the cache was filled
C23_CachedBuffersUnchanged ==
  CompositeRan => AsDecoded(p.rir) /\ AsDecoded(p.fg) /\ AsDecoded(p.bg)

\* =========================================== claims on the white noise
WhiteNoiseRan == p.kind = "white_noise" /\ last = "perturb"

\* C22: a WhiteNoise request whose range [min_level, max_level] is not empty
\* succeeds and its level is an integer of that range; with min_level =
\* max_level it returns that level
C22_LevelDrawnFromClosedRange ==
  (WhiteNoiseRan /\ p.min_level <= p.max_level)
    => /\ err = "none"
       /\ mix.op = "white_noise"
       /\ mix.noise_level_db \in p.min_level..p.max_level

====
